---- MODULE Spec2Model ----
(***************************************************************************)
(* Model of the self-play trajectory store (GameStats), the n-step target  *)
(* builder (GameStats.make_target), the search driver                      *)
(* (Train.run_simulations), the lockstep episode loop (run_single_game)    *)
(* and the training record (TrainElement) of src/simulation.py, and of the *)
(* training step (Trainer.training_step) of src/muzero.py.                 *)
(***************************************************************************)
EXTENDS Integers, Sequences, FiniteSets, TLC

\* ---------------------------------------------------------------- bounds
\* hparams.max_episode_len: width of every per-step buffer
MaxEpisodeLen == 2
\* hparams.td_steps ranges over 1..MaxTdSteps
MaxTdSteps == 3
\* hparams.num_unroll_steps
NumUnrollSteps == 1

\* hparams.batch_size slots, hparams.num_actions actions
Slots == {0, 1}
Actions == {0, 1}
Steps == 0 .. (MaxEpisodeLen - 1)
Unroll == 0 .. NumUnrollSteps
\* the values an appended tensor is built from
Seeds == {1, 2}

\* ------------------------------------------------------------- the store
VARIABLES
    hparams,      \* [td_steps, value_discount]
    game_stats,   \* Train.game_stats: player id -> GameStats
    call,         \* the last call: operation, arguments, whether it raised
    target,       \* what the last make_target call returned
    game,         \* the locals of run_single_game and its position in the loop
    search,       \* the locals of Train.run_simulations: the tree, the position
    training,     \* Trainer.training_step: the batch, the position, the loss terms
    elements      \* two TrainElements and the results of == and hash on them

vars == <<hparams, game_stats, call, target, game, search, training, elements>>

\* hparams.player_ids
PlayerIds == {1, 2}

\* GameStats.__init__: every buffer zero, no snapshot stored
NewGameStats ==
    [ episode_len     |-> [s \in Slots |-> 0],
      rewards         |-> [s \in Slots |-> [p \in Steps |-> 0]],
      root_values     |-> [s \in Slots |-> [p \in Steps |-> 0]],
      children_visits |-> [s \in Slots |-> [a \in Actions |-> [p \in Steps |-> 0]]],
      actions         |-> [s \in Slots |-> [p \in Steps |-> 0]],
      player_ids      |-> [s \in Slots |-> [p \in Steps |-> 0]],
      dones           |-> [s \in Slots |-> FALSE],
      game_states     |-> << >> ]

\* GameStats.stored_tensors: the recognized field names
StoredTensors ==
    {"rewards", "root_values", "children_visits", "actions", "player_ids",
     "dones", "game_states"}

\* the fields written at [index, episode_len]
PerStepFields == {"rewards", "root_values", "actions", "player_ids"}

\* The tensors of one append call, built from seed v: one row per slot.
Tensors(v) ==
    [ children_visits |-> [s \in Slots |-> [a \in Actions |-> IF a = v - 1 THEN 2 + s ELSE 1]],
      root_values     |-> [s \in Slots |-> 10 * (v + s)],
      rewards         |-> [s \in Slots |-> v + s],
      actions         |-> [s \in Slots |-> v - 1],
      player_ids      |-> [s \in Slots |-> v],
      dones           |-> [s \in Slots |-> v = 2],
      game_states     |-> [s \in Slots |-> 100 + 10 * v + s] ]

\* dst[index, episode_len] = value for the slots of w (a 2-D buffer)
PutStep(buf, w, elen, value) ==
    [s \in Slots |->
        IF s \in w THEN [buf[s] EXCEPT ![elen[s]] = value[s]] ELSE buf[s]]

\* dst[index, :, episode_len] = value for the slots of w (the visit buffer)
PutVisits(buf, w, elen, value) ==
    [s \in Slots |->
        IF s \in w
        THEN [a \in Actions |-> [buf[s][a] EXCEPT ![elen[s]] = value[s][a]]]
        ELSE buf[s]]

\* new_visits = dst[index, :, episode_len]; torch.any(value != new_visits)
VisitsMismatch(buf, index, elen, value) ==
    \E s \in index : \E a \in Actions : buf[s][a][elen[s]] # value[s][a]

\* One pass of the loop over tensors_dict.items(), from the i-th key on.
\* elen is self.episode_len[index] read at the top of the call. An indexed
\* write with a position out of the buffer raises IndexError; the rows of w
\* are the in-range rows the kernel has written when it meets that position.
RECURSIVE AppendKeys(_, _, _, _, _, _, _)
AppendKeys(st, index, elen, keys, t, w, i) ==
    IF i > Len(keys) THEN [st |-> st, raised |-> FALSE]
    ELSE LET key == keys[i]
             inRange == {s \in index : elen[s] < MaxEpisodeLen}
         IN  IF key \notin StoredTensors
             THEN [st |-> st, raised |-> TRUE]
             ELSE IF key = "dones"
             THEN AppendKeys(
                    [st EXCEPT !.dones = [s \in Slots |->
                        IF s \in index THEN t.dones[s] ELSE @[s]]],
                    index, elen, keys, t, w, i + 1)
             ELSE IF key = "game_states"
             THEN AppendKeys(
                    [st EXCEPT !.game_states = Append(@, t.game_states)],
                    index, elen, keys, t, w, i + 1)
             ELSE IF inRange # index
             THEN [st |-> IF key = "children_visits"
                          THEN [st EXCEPT !.children_visits =
                                  PutVisits(@, w \cap inRange, elen, t.children_visits)]
                          ELSE [st EXCEPT ![key] =
                                  PutStep(@, w \cap inRange, elen, t[key])],
                   raised |-> TRUE]
             ELSE IF key = "children_visits"
             THEN LET dst == PutVisits(st.children_visits, index, elen, t.children_visits)
                  IN  IF VisitsMismatch(dst, index, elen, t.children_visits)
                      THEN [st |-> [st EXCEPT !.children_visits = dst], raised |-> TRUE]
                      ELSE AppendKeys([st EXCEPT !.children_visits = dst],
                                      index, elen, keys, t, w, i + 1)
             ELSE AppendKeys([st EXCEPT ![key] = PutStep(@, index, elen, t[key])],
                             index, elen, keys, t, w, i + 1)

\* a variant that advances every slot: self.episode_len += 1
GameStatsAppendAllSlots(st, index, keys, t, w) ==
    LET r == AppendKeys(st, index, st.episode_len, keys, t, w, 1)
    IN  IF r.raised THEN r
        ELSE [st |-> [r.st EXCEPT !.episode_len = [s \in Slots |-> @[s] + 1]],
              raised |-> FALSE]

\* a variant that skips the names it does not recognize
GameStatsAppendSkipUnknown(st, index, keys, t, w) ==
    LET known == SelectSeq(keys, LAMBDA k : k \in StoredTensors)
        r == AppendKeys(st, index, st.episode_len, known, t, w, 1)
    IN  IF r.raised THEN r
        ELSE [st |-> [r.st EXCEPT !.episode_len =
                        [s \in Slots |-> IF s \in index THEN @[s] + 1 ELSE @[s]]],
              raised |-> FALSE]

\* GameStats.append(index, tensors_dict): the loop, then episode_len[index] += 1
GameStatsAppend(st, index, keys, t, w) ==
    LET r == AppendKeys(st, index, st.episode_len, keys, t, w, 1)
    IN  IF r.raised THEN r
        ELSE [st |-> [r.st EXCEPT !.episode_len =
                        [s \in Slots |-> IF s \in index THEN @[s] + 1 ELSE @[s]]],
              raised |-> FALSE]

\* GameStats.update_last_reward_and_values(win_index, rewards):
\* self.rewards[win_index, episode_len-1] = rewards. Column -1 is the last
\* column of the buffer (negative indices count from the end); a column past
\* the buffer raises IndexError, the rows of w being written before it.
LastColumn(st, s) ==
    IF st.episode_len[s] = 0 THEN MaxEpisodeLen - 1 ELSE st.episode_len[s] - 1

GameStatsUpdateLastReward(st, win_index, rewards, w) ==
    LET inRange == {s \in win_index : st.episode_len[s] - 1 < MaxEpisodeLen}
        put(rows) == [st EXCEPT !.rewards = [s \in Slots |->
                        IF s \in rows
                        THEN [@[s] EXCEPT ![LastColumn(st, s)] = rewards[s]]
                        ELSE @[s]]]
    IN  IF inRange = win_index
        THEN [st |-> put(win_index), raised |-> FALSE]
        ELSE [st |-> put(w \cap inRange), raised |-> TRUE]

\* The key orders a caller passes: run_single_game's dictionary, a subset of
\* the recognized fields, and dictionaries holding an unrecognized name.
RunSingleGameKeys ==
    <<"children_visits", "root_values", "game_states", "rewards", "actions",
      "dones", "player_ids">>

KeyLists ==
    { <<"children_visits", "root_values", "rewards", "actions", "player_ids">>,
      <<"dones">>,
      <<"values", "rewards">>,
      <<"rewards", "values", "actions">> }

\* ----------------------------------------------------------- make_target
\* A target value is a sum of stored numbers, each scaled by a power of
\* hparams.value_discount. The discount is kept symbolic: a value is the
\* vector of its coefficients, the e-th being that of discount^(e/Den) where
\* Den is the denominator of torch.logspace's exponents; with
\* value_discount = 1.0 ("one") every power is 1 and all coefficients meet
\* at exponent 0.
Exps == 0 .. (MaxTdSteps * MaxTdSteps)

\* torch.logspace(0, 1, td_steps, base): exponents j/(td_steps-1), and the
\* single exponent 0 for td_steps = 1
Den == IF hparams.td_steps = 1 THEN 1 ELSE hparams.td_steps - 1

Pw(e) == IF hparams.value_discount = "one" THEN 0 ELSE e

Zero == [e \in Exps |-> 0]

\* c * value_discount^(e/Den)
Scaled(c, e) == [x \in Exps |-> IF x = Pw(e) THEN c ELSE 0]

Plus(p, q) == [e \in Exps |-> p[e] + q[e]]

\* discount_mult: row j of torch.logspace(0, 1, td_steps, base), as exponents
DiscountMult == [j \in 0 .. (hparams.td_steps - 1) |-> j]

\* roll_by_gather(mat, 1, shifts): column c of a row reads column
\* (c - shift) % n_cols of that row
RollByGather(mat, n_cols, shifts) ==
    [s \in Slots |-> [c \in 0 .. (n_cols - 1) |-> mat[(c - shifts[s]) % n_cols]]]

\* bootstrap_update_index = bootstrap_index < self.episode_len
BootstrapUpdateIndex(st, start_index, k) ==
    {s \in Slots : start_index[s] + k + hparams.td_steps < st.episode_len[s]}

\* What raises in one unroll step: root_values[valid_batch_index,
\* bootstrap_index] indexes with the filtered rows and the unfiltered
\* columns (a shape mismatch unless every row is valid, an IndexError for a
\* column out of the buffer); rewards * discount multiplies a
\* [B, max_episode_len] by a [B, td_steps] tensor; self.rewards[:, unroll_step]
\* reads column unroll_step of the buffer.
UnrollStepRaises(st, start_index, k) ==
    LET m == BootstrapUpdateIndex(st, start_index, k)
    IN  \/ (m # {} /\ m # Slots)
        \/ (m = Slots /\ \E s \in Slots :
                start_index[s] + k + hparams.td_steps >= MaxEpisodeLen)
        \/ (hparams.td_steps # MaxEpisodeLen /\ hparams.td_steps # 1
              /\ MaxEpisodeLen # 1)
        \/ k >= MaxEpisodeLen

\* rewards after the two torch.where masks: column c of row s
MaskedReward(st, start_index, k, s, c) ==
    IF c < start_index[s] + k \/ c >= start_index[s] + k + hparams.td_steps
    THEN 0 ELSE st.rewards[s][c]

\* (rewards * discount).sum(1) for row s, over the broadcast columns
RECURSIVE DiscountedRewards(_, _, _, _, _)
DiscountedRewards(st, start_index, k, s, c) ==
    LET n == IF MaxEpisodeLen = 1 THEN hparams.td_steps ELSE MaxEpisodeLen
        shifts == [x \in Slots |-> start_index[x] + k]
        discount == RollByGather(DiscountMult, hparams.td_steps, shifts)
        rc == IF MaxEpisodeLen = 1 THEN 0 ELSE c
        dc == IF hparams.td_steps = 1 THEN 0 ELSE c
    IN  IF c >= n THEN Zero
        ELSE Plus(Scaled(MaskedReward(st, start_index, k, s, rc), discount[s][dc]),
                  DiscountedRewards(st, start_index, k, s, c + 1))

\* target_values[:, unroll_step] for row s
TargetValue(st, start_index, k, s) ==
    LET boot == IF s \in BootstrapUpdateIndex(st, start_index, k)
                THEN Scaled(st.root_values[s][start_index[s] + k + hparams.td_steps],
                            hparams.td_steps * Den)
                ELSE Zero
    IN  Plus(boot, DiscountedRewards(st, start_index, k, s, 0))

\* target_rewards[:, unroll_step] = self.rewards[:, unroll_step]
TargetReward(st, start_index, k, s) == st.rewards[s][k]

\* target_children_visits[:, :, unroll_step] = self.children_visits[:, :, unroll_step]
TargetVisits(st, start_index, k, s) == [a \in Actions |-> st.children_visits[s][a][k]]

\* sample_len[start_unroll_valid_bool_index] += 1, over the unroll steps from k
RECURSIVE SampleLenFrom(_, _, _, _)
SampleLenFrom(st, start_index, s, k) ==
    IF k > NumUnrollSteps THEN 0
    ELSE (IF start_index[s] + k < st.episode_len[s] THEN 1 ELSE 0)
         + SampleLenFrom(st, start_index, s, k + 1)

\* a variant that also counts the step at the episode end
SampleLenInclusive(st, start_index, s) ==
    Cardinality({k \in Unroll : start_index[s] + k <= st.episode_len[s]})

SampleLen(st, start_index, s) == SampleLenFrom(st, start_index, s, 0)

\* GameStats.make_target(start_index): one TrainElement per row, or the
\* exception. self.game_states[sidx] raises for sidx past the list.
MakeTarget(st, start_index) ==
    IF \/ \E s \in Slots : start_index[s] >= Len(st.game_states)
       \/ \E k \in Unroll : UnrollStepRaises(st, start_index, k)
    THEN [raised |-> TRUE, samples |-> << >>]
    ELSE [raised |-> FALSE,
          samples |-> [s \in Slots |->
            [ start_index        |-> start_index[s],
              values             |-> [k \in Unroll |-> TargetValue(st, start_index, k, s)],
              rewards            |-> [k \in Unroll |-> TargetReward(st, start_index, k, s)],
              children_visits    |-> [a \in Actions |-> [k \in Unroll |->
                                        TargetVisits(st, start_index, k, s)[a]]],
              initial_game_state |-> st.game_states[start_index[s] + 1][s],
              actions            |-> [k \in Unroll |-> st.actions[s][k]],
              sample_len         |-> SampleLen(st, start_index, s),
              player_ids         |-> [k \in Unroll |-> st.player_ids[s][k]] ]]]

\* ------------------------------------------------- store-level behaviours
NoCall ==
    [op |-> "none", player |-> 1, index |-> {}, keys |-> << >>, seed |-> 1,
     raised |-> FALSE, start_index |-> [s \in Slots |-> 0]]

NoTarget == [raised |-> FALSE, samples |-> << >>]

\* hparams.num_simulations
NumSimulations == 3

\* the arena of one slot: the root and one node per simulation
Nodes == 0 .. NumSimulations

\* the sentinel of a child that is not allocated
Unexpanded == -1

\* mcts.Tree(...) for one slot: an empty arena
NewTree ==
    [ visit_count |-> [n \in Nodes |-> 0],
      children    |-> [n \in Nodes |-> [a \in Actions |-> Unexpanded]],
      expanded    |-> [n \in Nodes |-> FALSE],
      num_nodes   |-> 0 ]

\* Train.run_simulations has not been entered
NoSearch ==
    [pc |-> "idle", add_exploration_noise |-> FALSE, simulations |-> 0,
     tree |-> [s \in Slots |-> NewTree],
     noise |-> [s \in Slots |-> 0],
     children_visit_counts |-> [s \in Slots |-> [a \in Actions |-> 0]]]

\* run_single_game has not been entered. seed, rewards, dones and snapshot
\* hold what the search, step_games and the state stack returned in the
\* current pass; updates counts, per slot, the passes in which the slot was
\* in win_index (a history of the calls, not a local of the function);
\* budget is num_steps as the caller passed it, steps counts the passes
\* of the loop that ran to the end of line 323, and observed lists, per
\* player and slot, the observations the searches of that slot's recorded
\* steps were run on.
NoGame ==
    [pc |-> "idle", num_steps |-> 0, budget |-> 0, steps |-> 0,
     player_ids |-> [s \in Slots |-> 1],
     game_states |-> [s \in Slots |-> 0],
     active_games_index |-> {},
     seed |-> 1,
     rewards |-> [s \in Slots |-> 0],
     dones |-> [s \in Slots |-> FALSE],
     snapshot |-> [s \in Slots |-> 0],
     updates |-> [s \in Slots |-> 0],
     observed |-> [p \in PlayerIds |-> [s \in Slots |-> << >>]]]

\* hparams.batch_size during training: the rows of a collated batch
BatchSize == 4
Rows == 0 .. (BatchSize - 1)

\* Trainer.training_step has not been entered
NoTraining ==
    [pc |-> "idle", sample |-> [sample_len |-> [i \in Rows |-> 0]], terms |-> {}]

\* the values a field of a TrainElement is built from
FieldValues == {0, 1}

\* @dataclass class TrainElement: the fields
TrainElementFields ==
    {"start_index", "values", "rewards", "children_visits",
     "initial_game_state", "actions", "sample_len", "player_ids"}

\* no TrainElement has been compared or hashed
NoElements ==
    [pc |-> "idle",
     a |-> [f \in TrainElementFields |-> 0],
     b |-> [f \in TrainElementFields |-> 0],
     eq |-> FALSE, hash_a |-> 0, hash_b |-> 0]

\* the hparams of the store-level specification
Init ==
    /\ hparams = [td_steps |-> 1, value_discount |-> "one"]
    /\ game_stats = [p \in PlayerIds |-> NewGameStats]
    /\ training = NoTraining
    /\ elements = NoElements
    /\ call = NoCall
    /\ target = NoTarget
    /\ game = NoGame
    /\ search = NoSearch

\* a call of GameStats.append on the first player's store, made while the
\* active slots hold at most limit steps; w ranges over the rows an indexed
\* write may have stored when it raises
AppendCall(keylists, seeds, limit) ==
    \E index \in (SUBSET Slots) \ {{}}, keys \in keylists, v \in seeds :
        /\ \A s \in index : game_stats[1].episode_len[s] <= limit
        /\ \E w \in SUBSET {s \in index :
                    /\ game_stats[1].episode_len[s] < MaxEpisodeLen
                    /\ \E x \in index : game_stats[1].episode_len[x] >= MaxEpisodeLen} :
           LET r == GameStatsAppend(game_stats[1], index, keys, Tensors(v), w)
           IN  /\ game_stats' = [game_stats EXCEPT ![1] = r.st]
               /\ call' = [NoCall EXCEPT !.op = "append", !.index = index,
                           !.keys = keys, !.seed = v, !.raised = r.raised]
        /\ target' = NoTarget
        /\ UNCHANGED <<hparams, game, search, training, elements>>

StoreAppend == AppendCall(KeyLists, {1}, MaxEpisodeLen)

Next == StoreAppend

Spec == Init /\ [][Next]_vars

\* the store the calls act on, before and after a step
Store == game_stats[1]
StoreNext == game_stats'[1]

KeySet(keys) == {keys[i] : i \in 1 .. Len(keys)}

\* the position of the first unrecognized name of keys, 0 when there is none
FirstUnknown(keys) ==
    IF \A i \in 1 .. Len(keys) : keys[i] \in StoredTensors THEN 0
    ELSE CHOOSE i \in 1 .. Len(keys) :
            /\ keys[i] \notin StoredTensors
            /\ \A j \in 1 .. (i - 1) : keys[j] \in StoredTensors

\* C7: after any sequence of append calls episode_len[slot] <= max_episode_len
\* holds for every slot.
C7_EpisodeLenBounded ==
    \A s \in Slots : Store.episode_len[s] <= MaxEpisodeLen

\* C8: an append that returns writes every supplied per-step field of every
\* active slot at the slot's old episode_len, advances that episode_len by
\* exactly 1, and changes no other position and no inactive slot.
C8_AppendWritesAtEpisodeLen ==
    [][ (call'.op = "append" /\ ~call'.raised) =>
          LET t == Tensors(call'.seed)
              ks == KeySet(call'.keys)
          IN  \A s \in Slots :
                LET p == Store.episode_len[s]
                    active == s \in call'.index
                IN  /\ StoreNext.episode_len[s] = IF active THEN p + 1 ELSE p
                    /\ \A f \in PerStepFields : \A q \in Steps :
                         StoreNext[f][s][q] =
                           IF active /\ f \in ks /\ q = p THEN t[f][s] ELSE Store[f][s][q]
                    /\ \A a \in Actions : \A q \in Steps :
                         StoreNext.children_visits[s][a][q] =
                           IF active /\ "children_visits" \in ks /\ q = p
                           THEN t.children_visits[s][a]
                           ELSE Store.children_visits[s][a][q] ]_vars

\* an append of the per-step fields has returned for a slot that already held
\* a step, while the other slot was inactive
C8_Witness ==
    /\ call.op = "append" /\ ~call.raised
    /\ "children_visits" \in KeySet(call.keys)
    /\ call.index = {0}
    /\ Store.episode_len[0] = 2
    /\ Store.rewards[0][1] = Tensors(call.seed).rewards[0]

\* C9 as stated: an append whose dictionary holds an unrecognized name fails
\* and leaves the store exactly as it was, wherever the name occurs.
C9_UnknownFieldLeavesStore ==
    [][ (call'.op = "append" /\ FirstUnknown(call'.keys) # 0) =>
          (call'.raised /\ game_stats' = game_stats) ]_vars

\* C9 amended: the call fails and advances no episode_len; the fields that do
\* not precede the unrecognized name are untouched; the per-step fields that
\* precede it are already written at episode_len[slot] of every active slot
\* (when those positions are in the buffer); the store is unchanged when no
\* recognized field precedes the name.
C9_UnknownFieldFails ==
    [][ (call'.op = "append" /\ FirstUnknown(call'.keys) # 0) =>
          LET i == FirstUnknown(call'.keys)
              pre == {call'.keys[j] : j \in 1 .. (i - 1)}
              t == Tensors(call'.seed)
              fits == \A s \in call'.index : Store.episode_len[s] < MaxEpisodeLen
          IN  /\ call'.raised
              /\ StoreNext.episode_len = Store.episode_len
              /\ \A f \in StoredTensors \ pre : StoreNext[f] = Store[f]
              /\ (pre = {} => game_stats' = game_stats)
              /\ fits => \A f \in pre \cap PerStepFields : \A s \in Slots : \A q \in Steps :
                    StoreNext[f][s][q] =
                      IF s \in call'.index /\ q = Store.episode_len[s]
                      THEN t[f][s] ELSE Store[f][s][q] ]_vars

\* an append has failed on an unrecognized name after writing a reward
C9_Witness ==
    /\ call.op = "append" /\ call.raised
    /\ call.keys = <<"rewards", "values", "actions">>
    /\ call.index = Slots
    /\ \A s \in Slots : /\ Store.episode_len[s] = 1
                        /\ Store.rewards[s][1] = Tensors(call.seed).rewards[s]

\* ------------------------------------------------ target-level behaviours
InitTarget ==
    /\ hparams \in [td_steps : 1 .. MaxTdSteps, value_discount : {"one", "x"}]
    /\ game_stats = [p \in PlayerIds |-> NewGameStats]
    /\ training = NoTraining
    /\ elements = NoElements
    /\ call = NoCall
    /\ target = NoTarget
    /\ game = NoGame
    /\ search = NoSearch

\* the appends of a self-play driver: the whole dictionary, to slots whose
\* buffers have room
TargetAppend == AppendCall({RunSingleGameKeys}, Seeds, MaxEpisodeLen - 1)

\* a call of GameStats.make_target on the first player's store
MakeTargetCall ==
    \E start_index \in [Slots -> Steps] :
        /\ target' = MakeTarget(game_stats[1], start_index)
        /\ call' = [NoCall EXCEPT !.op = "make_target", !.start_index = start_index,
                                  !.raised = target'.raised]
        /\ UNCHANGED <<hparams, game_stats, game, search, training, elements>>

NextTarget == TargetAppend \/ MakeTargetCall

SpecTarget == InitTarget /\ [][NextTarget]_vars

\* the last call was make_target with every window starting inside its episode
WindowCall ==
    /\ call.op = "make_target"
    /\ \A s \in Slots : call.start_index[s] < Store.episode_len[s]

\* the stored reward of slot s at absolute step p, 0 past the episode end
RewardAt(s, p) ==
    IF p < Store.episode_len[s] /\ p \in Steps THEN Store.rewards[s][p] ELSE 0

\* C1: rewards[k] and children_visits[:, k] of element i are the reward and
\* the visit distribution stored for slot i at absolute step start_index[i]+k
\* when that step is inside the episode, and zero otherwise.
C1_WindowFollowsStartIndex ==
    (WindowCall /\ ~target.raised) =>
        \A s \in Slots : \A k \in Unroll :
            LET p == call.start_index[s] + k
                inside == p < Store.episode_len[s] /\ p \in Steps
            IN  /\ target.samples[s].rewards[k] = RewardAt(s, p)
                /\ \A a \in Actions :
                     target.samples[s].children_visits[a][k] =
                       IF inside THEN Store.children_visits[s][a][p] ELSE 0

\* the n-step return C2 states, from absolute step p of slot s: rewards
\* p .. p+td_steps-1 inside the episode, the j-th scaled by discount^j
RECURSIVE StatedReturn(_, _, _)
StatedReturn(s, p, j) ==
    IF j >= hparams.td_steps THEN Zero
    ELSE Plus(Scaled(RewardAt(s, p + j), j * Den), StatedReturn(s, p, j + 1))

StatedValue(s, p) ==
    LET b == p + hparams.td_steps
    IN  Plus(StatedReturn(s, p, 0),
             IF b < Store.episode_len[s] /\ b \in Steps
             THEN Scaled(Store.root_values[s][b], hparams.td_steps * Den)
             ELSE Zero)

\* C2: for every td_steps and discount, values[k] is the discounted sum of
\* the td_steps rewards from start_index+k inside the episode plus the
\* discounted root value at the bootstrap index when that is inside it.
C2_NStepReturn ==
    WindowCall =>
        /\ ~target.raised
        /\ \A s \in Slots : \A k \in Unroll :
             target.samples[s].values[k] = StatedValue(s, call.start_index[s] + k)

\* C3: with td_steps = 1 and discount = 1.0, for every slot of the batch,
\* values[k] = reward[start+k] + root_value[start+k+1] when start+k+1 is
\* inside the slot's episode, and reward[start+k] otherwise.
C3_OneStepReturn ==
    (WindowCall /\ hparams.td_steps = 1 /\ hparams.value_discount = "one") =>
        /\ ~target.raised
        /\ \A s \in Slots : \A k \in Unroll :
             LET p == call.start_index[s] + k
             IN  target.samples[s].values[k][0] =
                   RewardAt(s, p)
                   + (IF p + 1 < Store.episode_len[s] /\ p + 1 \in Steps
                      THEN Store.root_values[s][p + 1] ELSE 0)

\* C4: sample_len is the number of offsets k in 0..num_unroll_steps with
\* start_index+k inside the episode, so it lies in 0..num_unroll_steps+1 and
\* is below num_unroll_steps+1 when start_index+num_unroll_steps exceeds
\* episode_len.
C4_SampleLen ==
    (call.op = "make_target" /\ ~target.raised) =>
        \A s \in Slots :
            LET n == target.samples[s].sample_len
                start == call.start_index[s]
            IN  /\ n = Cardinality({k \in Unroll : start + k < Store.episode_len[s]})
                /\ n \in 0 .. (NumUnrollSteps + 1)
                /\ (start + NumUnrollSteps > Store.episode_len[s]
                      => n < NumUnrollSteps + 1)

\* make_target has returned a window that runs past the end of one slot's
\* episode and lies wholly inside the other's
C4_Witness ==
    /\ call.op = "make_target" /\ ~target.raised
    /\ \E s \in Slots : /\ target.samples[s].sample_len > 0
                        /\ target.samples[s].sample_len < NumUnrollSteps + 1
    /\ \E s \in Slots : target.samples[s].sample_len = NumUnrollSteps + 1
\* ------------------------------------------------------- run_single_game
\* the step budgets a caller passes
MaxNumSteps == 5

\* mcts.player_id_change: the two-party rotation
PlayerIdChange(p) == IF p = 1 THEN 2 ELSE 1

\* what GameTransition.step returns for one slot: reward and done flag
Outcomes ==
    { [reward |-> 0, done |-> FALSE], [reward |-> 0, done |-> TRUE],
      [reward |-> 1, done |-> TRUE],  [reward |-> 1, done |-> FALSE] }

\* a variant that keeps the finished games in the active set
KeepActive(active, dones) == active

\* active_games_index = active_games_index[dones != True]
NextActive(active, dones) == {s \in active : ~dones[s]}

\* the player to move: active_player_ids[0]
Mover == game.player_ids[CHOOSE s \in game.active_games_index : TRUE]

InitGame ==
    /\ hparams = [td_steps |-> 1, value_discount |-> "one"]
    /\ game_stats = [p \in PlayerIds |-> NewGameStats]
    /\ training = NoTraining
    /\ elements = NoElements
    /\ call = NoCall
    /\ target = NoTarget
    /\ search = NoSearch
    /\ \E n \in 0 .. MaxNumSteps :
         game = [NoGame EXCEPT !.pc = "search", !.num_steps = n,
                               !.budget = n,
                               !.active_games_index = Slots]

\* lines 293-308: the consistency check, the snapshot of the pushed states,
\* the search and the game transition of the active slots
SearchAndStep ==
    /\ game.pc = "search"
    /\ IF \E s \in Slots : game.player_ids[s] # Mover
       THEN game' = [game EXCEPT !.pc = "raised"]
       ELSE \E v \in {1}, o \in [game.active_games_index -> Outcomes] :
              game' = [game EXCEPT
                 !.pc = "append",
                 !.seed = v,
                 !.snapshot = game.game_states,
                 !.rewards = [s \in Slots |->
                    IF s \in game.active_games_index THEN o[s].reward ELSE 0],
                 !.dones = [s \in Slots |->
                    IF s \in game.active_games_index THEN o[s].done ELSE FALSE],
                 !.game_states = [s \in Slots |->
                    IF s \in game.active_games_index THEN @[s] + 1 ELSE @[s]]]
    /\ UNCHANGED <<hparams, game_stats, call, target, search, training, elements>>

\* a variant that hands over the states after the game transition
StepTensorsNewStates ==
    [Tensors(game.seed) EXCEPT
        !.rewards = game.rewards,
        !.dones = game.dones,
        !.game_states = game.game_states,
        !.player_ids = [s \in Slots |-> Mover]]

\* the tensors run_single_game hands to append
StepTensors ==
    [Tensors(game.seed) EXCEPT
        !.rewards = game.rewards,
        !.dones = game.dones,
        !.game_states = game.snapshot,
        !.player_ids = [s \in Slots |-> Mover]]

\* lines 310-318: train.game_stats[player_id].append(active_games_index, ...)
AppendStep ==
    /\ game.pc = "append"
    /\ LET r == GameStatsAppend(game_stats[Mover], game.active_games_index,
                                RunSingleGameKeys, StepTensors, {})
       IN  /\ game_stats' = [game_stats EXCEPT ![Mover] = r.st]
           /\ call' = [NoCall EXCEPT !.op = "append", !.player = Mover,
                          !.index = game.active_games_index,
                          !.keys = RunSingleGameKeys, !.raised = r.raised]
           /\ game' = [game EXCEPT
                 !.pc = IF r.raised THEN "raised" ELSE "update",
                 !.observed = [@ EXCEPT ![Mover] = [s \in Slots |->
                    IF s \in game.active_games_index /\ ~r.raised
                    THEN Append(@[s], game.snapshot[s]) ELSE @[s]]]]
    /\ UNCHANGED <<hparams, target, search, training, elements>>

\* win_index = active_games_index[(dones == True) & (rewards > 0)]
WinIndex ==
    {s \in game.active_games_index : game.dones[s] /\ game.rewards[s] > 0}

\* lines 320-323: the opponent's last reward becomes -1 for the won slots
UpdateStep ==
    /\ game.pc = "update"
    /\ LET other == PlayerIdChange(Mover)
           r == GameStatsUpdateLastReward(game_stats[other], WinIndex,
                                          [s \in Slots |-> -1], {})
       IN  /\ game_stats' = [game_stats EXCEPT ![other] = r.st]
           /\ call' = [NoCall EXCEPT !.op = "update", !.player = other,
                          !.index = WinIndex, !.raised = r.raised]
           /\ game' = [game EXCEPT
                 !.pc = IF r.raised THEN "raised" ELSE "check",
                 !.steps = IF r.raised THEN @ ELSE @ + 1,
                 !.updates = [s \in Slots |->
                    IF s \in WinIndex THEN @[s] + 1 ELSE @[s]]]
    /\ UNCHANGED <<hparams, target, search, training, elements>>

\* a variant that leaves the players as they are
KeepPlayers(player_ids) == player_ids

\* player_ids = mcts.player_id_change(hparams, player_ids): every slot's
\* player is rotated, the finished slots' too
RotatePlayers(player_ids) == [s \in Slots |-> PlayerIdChange(player_ids[s])]

\* lines 336-344: leave when every active game is done, else rotate the
\* players, drop the finished games and count the step against the budget
CheckStep ==
    /\ game.pc = "check"
    /\ IF \A s \in game.active_games_index : game.dones[s]
       THEN game' = [game EXCEPT !.pc = "returned"]
       ELSE game' = [game EXCEPT
               !.player_ids = RotatePlayers(@),
               !.active_games_index = NextActive(@, game.dones),
               !.num_steps = @ - 1,
               !.pc = IF game.num_steps - 1 = 0 THEN "returned" ELSE "search"]
    /\ UNCHANGED <<hparams, game_stats, call, target, search, training, elements>>

NextGame == SearchAndStep \/ AppendStep \/ UpdateStep \/ CheckStep

SpecGame == InitGame /\ [][NextGame]_vars

\* C5: update_last_reward_and_values overwrites, for every target slot,
\* exactly the reward at position episode_len[slot]-1 of the opponent's store
\* with -1, and leaves every other reward entry, episode_len and every other
\* field unchanged, whatever the episode length.
C5_OverwritesLastRewardOnly ==
    [][ call'.op = "update" =>
          LET st == game_stats[call'.player]
              nx == game_stats'[call'.player]
          IN  /\ \A s \in Slots : \A q \in Steps :
                   nx.rewards[s][q] =
                     IF s \in call'.index /\ q = st.episode_len[s] - 1
                     THEN -1 ELSE st.rewards[s][q]
              /\ [nx EXCEPT !.rewards = st.rewards] = st
              /\ game_stats'[PlayerIdChange(call'.player)]
                   = game_stats[PlayerIdChange(call'.player)] ]_vars

\* a slot's step has been recorded with done = true in some player's store
DoneRecorded(s) == \E p \in PlayerIds : game_stats[p].dones[s]

\* C6: once a slot's step has been recorded with done = true no store
\* receives a further append for that slot, and the slot is passed to
\* update_last_reward_and_values at most once in the episode.
C6_NoAppendAfterDone ==
    [][ \A s \in Slots :
          /\ DoneRecorded(s) =>
               \A p \in PlayerIds :
                 /\ game_stats'[p].episode_len[s] = game_stats[p].episode_len[s]
                 /\ game_stats'[p].dones[s] = game_stats[p].dones[s]
                 /\ game_stats'[p].root_values[s] = game_stats[p].root_values[s]
                 /\ game_stats'[p].children_visits[s] = game_stats[p].children_visits[s]
                 /\ game_stats'[p].actions[s] = game_stats[p].actions[s]
          /\ game'.updates[s] <= 1 ]_vars

\* slot 0 was won and corrected, and the episode went on for slot 1
C6_Witness ==
    /\ DoneRecorded(0) /\ game.updates[0] = 1
    /\ game_stats[1].episode_len[1] > game_stats[1].episode_len[0]
    /\ game_stats[2].episode_len[1] > game_stats[2].episode_len[0]

\* make_target on the store of one player, taken from the dictionary
\* run_single_game returned; the call leaves the stores as they are, so one
\* call per episode shows every result
EpisodeMakeTarget ==
    /\ game.pc = "returned"
    /\ call.op # "make_target"
    /\ \E p \in PlayerIds, start_index \in [Slots -> Steps] :
          /\ target' = MakeTarget(game_stats[p], start_index)
          /\ call' = [NoCall EXCEPT !.op = "make_target", !.player = p,
                                    !.start_index = start_index,
                                    !.raised = target'.raised]
    /\ UNCHANGED <<hparams, game_stats, game, search, training, elements>>

NextEpisode ==
    SearchAndStep \/ AppendStep \/ UpdateStep \/ CheckStep \/ EpisodeMakeTarget

SpecEpisode == InitGame /\ [][NextEpisode]_vars

\* C12: run_single_game(num_steps) runs at most num_steps decision steps, and
\* when it returns it has either used the whole budget or just completed a
\* step after which every active slot is done.
C12_ReturnsWithinBudget ==
    /\ game.steps <= game.budget
    /\ game.pc = "returned" =>
          \/ game.steps = game.budget
          \/ \A s \in game.active_games_index : game.dones[s]
\* ------------------------------------------------- Train.run_simulations
\* tree.expand(node_index, policy_logits) at the root: the root is allocated
\* and marked expanded, its children stay unallocated
TreeExpandRoot(tree) ==
    [tree EXCEPT !.expanded = [@ EXCEPT ![0] = TRUE], !.num_nodes = 1]

\* a variant that leaves the root's own visit out
ScatterRootVisitNone(tree) == tree

\* tree.visit_count.scatter_(1, node_index, 1) with node_index = 0
ScatterRootVisit(tree) ==
    [tree EXCEPT !.visit_count = [@ EXCEPT ![0] = 1]]

\* SELECT: the node reached from the root by the first i actions of acts,
\* Unexpanded once the walk has left the allocated nodes
RECURSIVE NodeAt(_, _, _)
NodeAt(tree, acts, i) ==
    IF i = 0 THEN 0
    ELSE LET prev == NodeAt(tree, acts, i - 1)
         IN  IF prev = Unexpanded THEN Unexpanded
             ELSE tree.children[prev][acts[i]]

\* acts is a selection: it walks expanded nodes and ends on an unallocated child
IsSelection(tree, acts) ==
    /\ \A i \in 0 .. (Len(acts) - 1) : NodeAt(tree, acts, i) # Unexpanded
    /\ NodeAt(tree, acts, Len(acts)) = Unexpanded

\* tree.run_one_simulation for one slot: EXPAND allocates the leaf under the
\* last selected node, BACKPROP adds one visit to every node of the search
\* path, the new leaf included
RunOneSimulation(tree, acts) ==
    LET leaf == tree.num_nodes
        parent == NodeAt(tree, acts, Len(acts) - 1)
        path == {NodeAt(tree, acts, i) : i \in 0 .. (Len(acts) - 1)} \cup {leaf}
    IN  [tree EXCEPT
           !.children = [@ EXCEPT ![parent] = [@ EXCEPT ![acts[Len(acts)]] = leaf]],
           !.expanded = [@ EXCEPT ![leaf] = TRUE],
           !.num_nodes = leaf + 1,
           !.visit_count = [n \in Nodes |-> IF n \in path THEN @[n] + 1 ELSE @[n]]]

\* tree.visit_count.gather(1, tree.children_index(batch_index, node_index)):
\* the visit counts of the root's children, 0 for a child never allocated
ChildrenVisitCounts(tree) ==
    [a \in Actions |->
        IF tree.children[0][a] = Unexpanded THEN 0
        ELSE tree.visit_count[tree.children[0][a]]]

InitSearch ==
    /\ hparams = [td_steps |-> 1, value_discount |-> "one"]
    /\ game_stats = [p \in PlayerIds |-> NewGameStats]
    /\ training = NoTraining
    /\ elements = NoElements
    /\ call = NoCall
    /\ target = NoTarget
    /\ game = NoGame
    /\ \E b \in BOOLEAN :
         search = [NoSearch EXCEPT !.pc = "initial", !.add_exploration_noise = b]

\* a variant that goes straight to the simulations
SkipExplorationNoise(add_exploration_noise) == "simulate"

\* if self.hparams.add_exploration_noise: where the call goes after the
\* root's expansion
ExplorationNoisePc(add_exploration_noise) ==
    IF add_exploration_noise THEN "noise" ELSE "simulate"

\* lines 244-259: the tree, the initial inference, the root's expansion
InitialExpand ==
    /\ search.pc = "initial"
    /\ search' = [search EXCEPT
          !.tree = [s \in Slots |-> ScatterRootVisit(TreeExpandRoot(NewTree))],
          !.pc = ExplorationNoisePc(search.add_exploration_noise)]
    /\ UNCHANGED <<hparams, game_stats, call, target, game, training, elements>>

\* lines 261-263: tree.add_exploration_noise on the root's children
AddExplorationNoise ==
    /\ search.pc = "noise"
    /\ search' = [search EXCEPT
          !.noise = [s \in Slots |-> @[s] + 1],
          !.pc = "simulate"]
    /\ UNCHANGED <<hparams, game_stats, call, target, game, training, elements>>

\* lines 265-266: one pass of the loop over range(num_simulations); the
\* scores may select any action at every depth
Simulate ==
    /\ search.pc = "simulate"
    /\ search.simulations < NumSimulations
    /\ \E acts \in [Slots -> UNION {[1 .. d -> Actions] : d \in 1 .. NumSimulations}] :
          /\ \A s \in Slots : IsSelection(search.tree[s], acts[s])
          /\ search' = [search EXCEPT
                !.tree = [s \in Slots |-> RunOneSimulation(@[s], acts[s])],
                !.simulations = @ + 1]
    /\ UNCHANGED <<hparams, game_stats, call, target, game, training, elements>>

\* lines 271-283: the root children's visit counts are gathered and returned
ReturnSimulations ==
    /\ search.pc = "simulate"
    /\ search.simulations = NumSimulations
    /\ NumSimulations # 0      \* line 269 divides by num_simulations
    /\ search' = [search EXCEPT
          !.children_visit_counts = [s \in Slots |-> ChildrenVisitCounts(search.tree[s])],
          !.pc = "returned"]
    /\ UNCHANGED <<hparams, game_stats, call, target, game, training, elements>>

NextSearch == InitialExpand \/ AddExplorationNoise \/ Simulate \/ ReturnSimulations

SpecSearch == InitSearch /\ [][NextSearch]_vars

RECURSIVE SumOver(_, _)
SumOver(f, S) ==
    IF S = {} THEN 0
    ELSE LET x == CHOOSE y \in S : TRUE IN f[x] + SumOver(f, S \ {x})

\* C10: when run_simulations has completed, every slot's root has visit
\* count 1 + num_simulations and the root children's visit counts it returns
\* sum to num_simulations.
C10_RootVisits ==
    search.pc = "returned" =>
        \A s \in Slots :
            /\ search.tree[s].visit_count[0] = 1 + NumSimulations
            /\ SumOver(search.children_visit_counts[s], Actions) = NumSimulations

\* run_simulations has returned with the simulations of one slot spread over
\* both root children and those of the other slot all under one child
C10_Witness ==
    /\ search.pc = "returned"
    /\ \A a \in Actions : search.children_visit_counts[0][a] > 0
    /\ \E a \in Actions : search.children_visit_counts[1][a] = 0

\* C13: when make_target returns on a store filled by run_single_game, the
\* element of every slot whose start_index is below the slot's episode_len
\* carries, as initial_game_state, the observation that slot's step
\* start_index of that store was searched on and appended with, also when
\* the slots left the active set at different steps.
C13_InitialGameState ==
    (call.op = "make_target" /\ ~target.raised) =>
        \A s \in Slots :
            call.start_index[s] < game_stats[call.player].episode_len[s] =>
                /\ call.start_index[s] < Len(game.observed[call.player][s])
                /\ target.samples[s].initial_game_state
                     = game.observed[call.player][s][call.start_index[s] + 1]

\* make_target has returned on the second player's store for windows that
\* start inside both episodes, the later one in the slot that played on
\* after the other slot had finished
C13_Witness ==
    /\ call.op = "make_target" /\ ~target.raised /\ call.player = 2
    /\ \A s \in Slots :
          call.start_index[s] < game_stats[2].episode_len[s]
    /\ game_stats[2].episode_len[0] < game_stats[2].episode_len[1]
    /\ call.start_index[1] > call.start_index[0]
    /\ game_stats[1].episode_len[0] < game_stats[1].episode_len[1]

\* C14: in every state of a self-play episode, in every player's store and
\* for every slot, the reward, root-value and visit-distribution entries at
\* the positions from episode_len[slot] on are zero.
C14_ZeroPastEpisodeEnd ==
    \A p \in PlayerIds : \A s \in Slots : \A q \in Steps :
        q >= game_stats[p].episode_len[s] =>
            /\ game_stats[p].rewards[s][q] = 0
            /\ game_stats[p].root_values[s][q] = 0
            /\ \A a \in Actions : game_stats[p].children_visits[s][a][q] = 0

\* C15: every decision step is appended to the store of the player who
\* moved, the first player moving in the first step and the mover changing
\* by the rotation rule after every step for all slots at once; so for every
\* slot the first-moving player's episode_len is equal to, or one greater
\* than, the other player's.
C15_StoresAlternate ==
    [][ /\ \A p \in PlayerIds : \A s \in Slots :
              game_stats'[p].episode_len[s] # game_stats[p].episode_len[s] =>
                 /\ game_stats'[p].episode_len[s] = game_stats[p].episode_len[s] + 1
                 /\ p = game.player_ids[s]
                 /\ p = IF game.steps % 2 = 0 THEN 1 ELSE 2
        /\ game'.pc = "search" =>
              \A s \in Slots :
                 game'.player_ids[s] = IF game'.steps % 2 = 0 THEN 1 ELSE 2
        /\ \A s \in Slots :
              \/ game_stats'[1].episode_len[s] = game_stats'[2].episode_len[s]
              \/ game_stats'[1].episode_len[s] = game_stats'[2].episode_len[s] + 1
      ]_vars

\* the episode has returned with one slot finished on a move of the first
\* player and the other slot finished on a later move of the second player
C15_Witness ==
    /\ game.pc = "returned"
    /\ game_stats[1].episode_len[0] = game_stats[2].episode_len[0] + 1
    /\ game_stats[1].episode_len[1] = game_stats[2].episode_len[1]
    /\ game_stats[2].episode_len[1] > game_stats[2].episode_len[0]

RECURSIVE Masked(_, _)
Masked(seq, mask) ==
    IF seq = << >> THEN << >>
    ELSE IF Head(mask) THEN <<Head(seq)>> \o Masked(Tail(seq), Tail(mask))
         ELSE Masked(Tail(seq), Tail(mask))

\* sample.sample_len.max().item()
SampleLenMax(sample) ==
    CHOOSE n \in 0 .. (NumUnrollSteps + 1) :
        /\ \E i \in Rows : sample.sample_len[i] = n
        /\ \A i \in Rows : sample.sample_len[i] <= n

\* torch.arange(len(sample))
Arange == [j \in 1 .. BatchSize |-> j - 1]

\* out.hidden_state of self.inference.initial: row j is the state of the
\* j-th sample, no recurrent call applied yet
InitialHidden == [j \in 1 .. BatchSize |-> [row |-> j - 1, depth |-> 0]]

\* lines 148-174: the passes of the loop from step_idx on. A loss term names,
\* for one row of the filtered batch, the sample whose targets are used, the
\* hidden state fed to the recurrent call and the cells of sample.actions,
\* values, children_visits and rewards that are read.
RECURSIVE UnrollFrom(_, _, _, _, _)
UnrollFrom(sample, step_idx, batch_index, hidden_state, terms) ==
    IF step_idx >= SampleLenMax(sample) THEN terms
    ELSE LET len_idx == [j \in 1 .. Len(batch_index) |->
                            step_idx < sample.sample_len[batch_index[j]]]
             bi == Masked(batch_index, len_idx)
             hidden_states == Masked(hidden_state, len_idx)
             out == [j \in 1 .. Len(hidden_states) |->
                        [row   |-> hidden_states[j].row,
                         depth |-> hidden_states[j].depth + 1]]
             new == { [step     |-> step_idx,
                       sample   |-> bi[j],
                       hidden   |-> hidden_states[j],
                       action   |-> [row |-> bi[j], col |-> step_idx - 1],
                       visits   |-> [row |-> bi[j], col |-> step_idx],
                       value    |-> [row |-> bi[j], col |-> step_idx],
                       reward   |-> [row |-> bi[j], col |-> step_idx - 1]] :
                      j \in 1 .. Len(bi) }
         IN  UnrollFrom(sample, step_idx + 1, bi, out, terms \cup new)

\* training_step(sample): line 115 reads sample.game_states, an attribute
\* lookup on a TrainElement that raises AttributeError for a name that is
\* not a field; past it the loop of lines 147-174 adds its loss terms
TrainingStepResult(sample) ==
    IF "game_states" \notin TrainElementFields
    THEN [pc |-> "raised", terms |-> {}]
    ELSE [pc |-> "returned",
          terms |-> UnrollFrom(sample, 1, Arange, InitialHidden, {})]

\* a collated batch of TrainElements is handed to training_step
InitTraining ==
    /\ hparams = [td_steps |-> 1, value_discount |-> "one"]
    /\ game_stats = [p \in PlayerIds |-> NewGameStats]
    /\ call = NoCall
    /\ target = NoTarget
    /\ game = NoGame
    /\ search = NoSearch
    /\ elements = NoElements
    /\ \E sample_len \in [Rows -> 0 .. (NumUnrollSteps + 1)] :
         training = [NoTraining EXCEPT !.pc = "called",
                                       !.sample = [sample_len |-> sample_len]]

TrainingStep ==
    /\ training.pc = "called"
    /\ LET r == TrainingStepResult(training.sample)
       IN  training' = [training EXCEPT !.pc = r.pc, !.terms = r.terms]
    /\ UNCHANGED <<hparams, game_stats, call, target, game, search, elements>>

NextTraining == TrainingStep

SpecTraining == InitTraining /\ [][NextTraining]_vars

\* C16: when training_step has ended, for every unroll step s from 1 to
\* max(sample_len)-1 the samples with a loss term at step s are exactly
\* those with s < sample_len, and in every such term the hidden state fed to
\* the recurrent call (the output of the s-1 earlier calls), the action and
\* the value, visit and reward targets are those of that same sample.
C16_ContributingRows ==
    training.pc \in {"returned", "raised"} =>
        \A s \in 1 .. (SampleLenMax(training.sample) - 1) :
            /\ \A i \in Rows :
                  (s < training.sample.sample_len[i])
                     <=> (\E t \in training.terms : t.step = s /\ t.sample = i)
            /\ \A t \in training.terms :
                  t.step = s =>
                     /\ t.hidden = [row |-> t.sample, depth |-> s - 1]
                     /\ t.action.row = t.sample
                     /\ t.visits.row = t.sample
                     /\ t.value.row = t.sample
                     /\ t.reward.row = t.sample

\* ---------------------------------------------------------- TrainElement
\* TrainElement.__eq__: torch.all over initial_game_state, values and actions
TrainElementEq(a, b) ==
    /\ a.initial_game_state = b.initial_game_state
    /\ a.values = b.values
    /\ a.actions = b.actions

\* TrainElement.__hash__: the tuple of byte strings handed to hash()
HashData(e) ==
    <<e.initial_game_state, e.actions, e.start_index, e.sample_len, e.player_ids>>

\* the numbers hash() may return
HashValues == {0, 1}

\* two TrainElements have been built
InitElements ==
    /\ hparams = [td_steps |-> 1, value_discount |-> "one"]
    /\ game_stats = [p \in PlayerIds |-> NewGameStats]
    /\ call = NoCall
    /\ target = NoTarget
    /\ game = NoGame
    /\ search = NoSearch
    /\ training = NoTraining
    /\ \E a \in [TrainElementFields -> FieldValues],
          b \in [TrainElementFields -> FieldValues] :
         elements = [NoElements EXCEPT !.pc = "built", !.a = a, !.b = b]

\* a == b, hash(a) and hash(b) are evaluated: hash() is a function of the
\* tuple, so equal tuples give one number and different tuples give any two
CompareAndHash ==
    /\ elements.pc = "built"
    /\ \E ha \in HashValues, hb \in HashValues :
          /\ HashData(elements.a) = HashData(elements.b) => ha = hb
          /\ elements' = [elements EXCEPT
                !.pc = "compared",
                !.eq = TrainElementEq(elements.a, elements.b),
                !.hash_a = ha,
                !.hash_b = hb]
    /\ UNCHANGED <<hparams, game_stats, call, target, game, search, training>>

NextElements == CompareAndHash

SpecElements == InitElements /\ [][NextElements]_vars

\* C17: for any two TrainElements a and b, a == b implies hash(a) = hash(b).
C17_EqImpliesSameHash ==
    (elements.pc = "compared" /\ elements.eq) =>
        elements.hash_a = elements.hash_b
====
